---- MODULE Spec2Model ----
(***************************************************************************)
(* Model of custom_components/fronius_modbus/config_flow.py: the config    *)
(* flow step async_step_user and the validation routine validate_input.    *)
(*                                                                         *)
(* One call of async_step_user is a coroutine that suspends only at        *)
(* `await hub.init_data()`.  The call is therefore modelled by the action  *)
(* that runs it from its first line to the await (or to its return when    *)
(* the await is not reached) and by the two actions that resume it, one    *)
(* for init_data returning and one for init_data raising.  The Hub and the *)
(* values it reports are the environment: they are chosen                  *)
(* nondeterministically.  Exceptions are the subclasses of Exception;      *)
(* cancellation of the task is the host's and is not modelled.             *)
(***************************************************************************)
EXTENDS Integers, Sequences, FiniteSets, TLC

VARIABLES
    pc,             \* "idle" | "awaiting" (suspended in init_data) | "returned" | "finished"
    user_input,     \* argument of the current call of async_step_user (None: no input)
    submitted,      \* history: the record the user submitted in this call (None: no input)
    errors,         \* the local `errors` dict of the current call
    hub,            \* the local `hub` of validate_input (None until constructed)
    result,         \* the flow result last returned to the host (None before the first)
    raised,         \* history: the exception validate_input raised in this call, or "none"
    checks,         \* history: the checks validate_input evaluated in this call, in order
    hubCalls,       \* history: the argument records of the Hub(...) calls of this call
    initDataCalls,  \* history: the number of hub.init_data() calls of this call
    hubExc,         \* history: the exception the hub raised during the probe, or "none"
    log             \* history: the records written to _LOGGER in this call

vars == <<pc, user_input, submitted, errors, hub, result, raised, checks, hubCalls,
          initDataCalls, hubExc, log>>

(***************************************************************************)
(* Bounds of the model.                                                    *)
(***************************************************************************)
MaxHostLen == 3
PortSlack == 1
ScanSlack == 1
MaxUnitId == 2
MaxModelLen == 2

(***************************************************************************)
(* Literals of validate_input.                                             *)
(***************************************************************************)
MIN_HOST_LEN == 3
MAX_PORT == 65535
MIN_SCAN_INTERVAL == 5

(***************************************************************************)
(* Values.                                                                 *)
(***************************************************************************)
None == [type |-> "NoneType"]

EmptyDict == [k \in {} |-> ""]

\* d[k] = v on a dict
Put(d, k, v) == [x \in (DOMAIN d) \cup {k} |-> IF x = k THEN v ELSE d[x]]

\* set(list)
ToSet(s) == {s[i] : i \in 1..Len(s)}

\* str.startswith
StartsWith(s, prefix) ==
    /\ Len(prefix) <= Len(s)
    /\ SubSeq(s, 1, Len(prefix)) = prefix

RECURSIVE StringsUpTo(_, _)
StringsUpTo(chars, n) ==
    IF n = 0 THEN {""}
    ELSE LET shorter == StringsUpTo(chars, n - 1)
         IN  shorter \cup {s \o c : s \in shorter, c \in chars}

\* the two supported sets of const.py, here with one manufacturer and two
\* model prefixes
SUPPORTED_MANUFACTURERS == {"Fronius"}
SUPPORTED_MODELS == {"Sy", "P"}

(***************************************************************************)
(* The inputs: the records the form's DATA_SCHEMA lets through.            *)
(***************************************************************************)
HostText == "192.168.1.10"
Names == {"Fronius", "Garage"}
Hosts == {SubSeq(HostText, 1, n) : n \in 0..MaxHostLen}
Ports == (MAX_PORT - PortSlack)..(MAX_PORT + PortSlack)
ScanIntervals == (MIN_SCAN_INTERVAL - ScanSlack)..(MIN_SCAN_INTERVAL + ScanSlack)
UnitIds == -1..MaxUnitId

DATA_SCHEMA ==
    [name : Names, host : Hosts, port : Ports, inverter_unit_id : UnitIds,
     meter_unit_id : UnitIds, scan_interval : ScanIntervals]

(***************************************************************************)
(* The environment: what the Hub may do and report.                        *)
(***************************************************************************)
\* exceptions a Hub call may raise; the last is one of this module's own classes
HubExceptions == {"OSError", "TimeoutError", "UnsupportedHardware"}

Manufacturers == {"Fronius", "SMA"}
ModelChars == {"S", "y", "P"}
ModelValues ==
    {[type |-> "str", value |-> s] : s \in StringsUpTo(ModelChars, MaxModelLen)}
        \cup {[type |-> "int", value |-> ""]}

\* the contents init_data may leave in hub.data
HubData ==
    {[i_manufacturer |-> m, i_model |-> v] : m \in Manufacturers, v \in ModelValues}
        \cup {[i_manufacturer |-> m] : m \in Manufacturers}
        \cup {[i_model |-> v] : v \in ModelValues}
        \cup {EmptyDict}

(***************************************************************************)
(* validate_input, lines 59-75: the synchronous checks.                    *)
(***************************************************************************)
LogRecord(level, msg) == [level |-> level, msg |-> msg]

Outcome(exc, chk, lg) == [raised |-> exc, checks |-> chk, log |-> lg]

\* mutant: the meter is kept in the address list when its unit id is 0
MeterAddressesFromZero(data) ==
    IF data.meter_unit_id >= 0 THEN <<data.meter_unit_id>> ELSE <<>>

MeterAddresses(data) ==
    IF data.meter_unit_id > 0 THEN <<data.meter_unit_id>> ELSE <<>>

AllAddresses(data) == MeterAddresses(data) \o <<data.inverter_unit_id>>

\* mutant: the port is checked before the host
SyncChecksPortFirst(data) ==
    IF data.port > MAX_PORT
    THEN Outcome("InvalidPort", <<"port">>, <<>>)
    ELSE IF Len(data.host) < MIN_HOST_LEN
    THEN Outcome("InvalidHost", <<"port", "host">>, <<>>)
    ELSE IF data.scan_interval < MIN_SCAN_INTERVAL
    THEN Outcome("ScanIntervalTooShort", <<"port", "host", "scan_interval">>, <<>>)
    ELSE IF Len(AllAddresses(data)) > Cardinality(ToSet(AllAddresses(data)))
    THEN Outcome("AddressesNotUnique",
                 <<"port", "host", "scan_interval", "addresses">>,
                 <<LogRecord("error", "Modbus addresses are not unique")>>)
    ELSE Outcome("none", <<"port", "host", "scan_interval", "addresses">>, <<>>)

\* mutant: the scan interval is not checked
SyncChecksNoScanInterval(data) ==
    IF Len(data.host) < MIN_HOST_LEN
    THEN Outcome("InvalidHost", <<"host">>, <<>>)
    ELSE IF data.port > MAX_PORT
    THEN Outcome("InvalidPort", <<"host", "port">>, <<>>)
    ELSE IF Len(AllAddresses(data)) > Cardinality(ToSet(AllAddresses(data)))
    THEN Outcome("AddressesNotUnique",
                 <<"host", "port", "addresses">>,
                 <<LogRecord("error", "Modbus addresses are not unique")>>)
    ELSE Outcome("none", <<"host", "port", "addresses">>, <<>>)

\* mutant: the hub is probed before the addresses are compared
SyncChecksNoAddresses(data) ==
    IF Len(data.host) < MIN_HOST_LEN
    THEN Outcome("InvalidHost", <<"host">>, <<>>)
    ELSE IF data.port > MAX_PORT
    THEN Outcome("InvalidPort", <<"host", "port">>, <<>>)
    ELSE IF data.scan_interval < MIN_SCAN_INTERVAL
    THEN Outcome("ScanIntervalTooShort", <<"host", "port", "scan_interval">>, <<>>)
    ELSE Outcome("none", <<"host", "port", "scan_interval">>, <<>>)

SyncChecks(data) ==
    IF Len(data.host) < MIN_HOST_LEN
    THEN Outcome("InvalidHost", <<"host">>, <<>>)
    ELSE IF data.port > MAX_PORT
    THEN Outcome("InvalidPort", <<"host", "port">>, <<>>)
    ELSE IF data.scan_interval < MIN_SCAN_INTERVAL
    THEN Outcome("ScanIntervalTooShort", <<"host", "port", "scan_interval">>, <<>>)
    ELSE IF Len(AllAddresses(data)) > Cardinality(ToSet(AllAddresses(data)))
    THEN Outcome("AddressesNotUnique",
                 <<"host", "port", "scan_interval", "addresses">>,
                 <<LogRecord("error", "Modbus addresses are not unique")>>)
    ELSE Outcome("none", <<"host", "port", "scan_interval", "addresses">>, <<>>)

(***************************************************************************)
(* validate_input, lines 77-85: the probe.                                 *)
(***************************************************************************)
\* the arguments of Hub(...), line 78
HubArgs(data) ==
    [name |-> data.name, host |-> data.host, port |-> data.port,
     inverter_unit_id |-> data.inverter_unit_id,
     meter_addresses |-> MeterAddresses(data),
     scan_interval |-> data.scan_interval]

\* the Hub object: its arguments and its data mapping
Hub(data, contents) == [args |-> HubArgs(data), data |-> contents]

\* mutant: the exception of the hub is raised again as it is
ProbeFailureReraised(e) == e

\* except Exception as e: ... raise CannotConnect
ProbeFailure(e) == "CannotConnect"

(***************************************************************************)
(* validate_input, lines 87-117: the checks of what the hub reported.      *)
(***************************************************************************)
\* mutant: an untested model is refused (the raise of line 107 is live)
HubDataChecksStrictModel(d) ==
    IF "i_manufacturer" \notin DOMAIN d
    THEN Outcome("UnsupportedHardware", <<"manufacturer">>,
                 <<LogRecord("error", "No manufacturer is returned")>>)
    ELSE IF d.i_manufacturer \notin SUPPORTED_MANUFACTURERS
    THEN Outcome("UnsupportedHardware", <<"manufacturer">>,
                 <<LogRecord("error", "Unsupported manufacturer")>>)
    ELSE IF "i_model" \notin DOMAIN d
    THEN Outcome("UnsupportedHardware", <<"manufacturer", "model">>,
                 <<LogRecord("error", "No model type is returned")>>)
    ELSE IF SUPPORTED_MODELS # {} /\ d.i_model.type # "str"
    THEN Outcome("AttributeError", <<"manufacturer", "model">>, <<>>)
    ELSE IF ~ \E supported_model \in SUPPORTED_MODELS :
                  StartsWith(d.i_model.value, supported_model)
    THEN Outcome("UnsupportedHardware", <<"manufacturer", "model">>,
                 <<LogRecord("warning", "Untested model")>>)
    ELSE Outcome("none", <<"manufacturer", "model">>, <<>>)

HubDataChecks(d) ==
    IF "i_manufacturer" \notin DOMAIN d
    THEN Outcome("UnsupportedHardware", <<"manufacturer">>,
                 <<LogRecord("error", "No manufacturer is returned")>>)
    ELSE IF d.i_manufacturer \notin SUPPORTED_MANUFACTURERS
    THEN Outcome("UnsupportedHardware", <<"manufacturer">>,
                 <<LogRecord("error", "Unsupported manufacturer")>>)
    ELSE IF "i_model" \notin DOMAIN d
    THEN Outcome("UnsupportedHardware", <<"manufacturer", "model">>,
                 <<LogRecord("error", "No model type is returned")>>)
    ELSE IF SUPPORTED_MODELS # {} /\ d.i_model.type # "str"
    THEN \* model.startswith on a value that is no str
         Outcome("AttributeError", <<"manufacturer", "model">>, <<>>)
    ELSE IF ~ \E supported_model \in SUPPORTED_MODELS :
                  StartsWith(d.i_model.value, supported_model)
    THEN Outcome("none", <<"manufacturer", "model">>,
                 <<LogRecord("warning", "Untested model")>>)
    ELSE Outcome("none", <<"manufacturer", "model">>, <<>>)

\* return {"title": data[CONF_NAME]}
ValidationInfo(data) == [title |-> data.name]

(***************************************************************************)
(* async_step_user, lines 137-162.                                         *)
(***************************************************************************)
\* mutant: the errors of the form shown last are kept (a dict that outlives the call)
StaleErrors ==
    IF result.type = "form" THEN result.errors ELSE EmptyDict

\* errors = {}
FreshErrors == EmptyDict

\* mutant: InvalidPort is reported under the code of InvalidHost
HandleExceptionPortAsHost(errs, exc) ==
    CASE exc = "CannotConnect" -> Put(errs, "base", "cannot_connect")
      [] exc = "InvalidPort" -> Put(errs, "host", "invalid_host")
      [] exc = "InvalidHost" -> Put(errs, "host", "invalid_host")
      [] exc = "ScanIntervalTooShort" -> Put(errs, "base", "scan_interval_too_short")
      [] exc = "UnsupportedHardware" -> Put(errs, "base", "unsupported_hardware")
      [] exc = "AddressesNotUnique" -> Put(errs, "base", "modbus_address_conflict")
      [] OTHER -> Put(errs, "base", "unknown")

\* mutant: the clause `except Exception` comes first and takes every exception
HandleExceptionBroadFirst(errs, exc) == Put(errs, "base", "unknown")

\* the except clauses, in order
HandleException(errs, exc) ==
    CASE exc = "CannotConnect" -> Put(errs, "base", "cannot_connect")
      [] exc = "InvalidPort" -> Put(errs, "base", "invalid_port")
      [] exc = "InvalidHost" -> Put(errs, "host", "invalid_host")
      [] exc = "ScanIntervalTooShort" -> Put(errs, "base", "scan_interval_too_short")
      [] exc = "UnsupportedHardware" -> Put(errs, "base", "unsupported_hardware")
      [] exc = "AddressesNotUnique" -> Put(errs, "base", "modbus_address_conflict")
      [] OTHER -> Put(errs, "base", "unknown")

\* what the last except clause logs
HandlerLog(exc) ==
    IF exc \in {"CannotConnect", "InvalidPort", "InvalidHost", "ScanIntervalTooShort",
                "UnsupportedHardware", "AddressesNotUnique"}
    THEN <<>>
    ELSE <<LogRecord("exception", "Unexpected exception")>>

async_create_entry(title, data) ==
    [type |-> "create_entry", title |-> title, data |-> data]

async_show_form(step_id, errs) ==
    [type |-> "form", step_id |-> step_id, errors |-> errs]

\* mutant: the entry stores what validate_input returned, not the user's record
EntryForInfo(info, input) == async_create_entry(info.title, info)

\* return self.async_create_entry(title=info["title"], data=user_input)
EntryFor(info, input) == async_create_entry(info.title, input)

\* the rest of async_step_user once validate_input has returned (exc = "none")
\* or raised exc
Finish(input, errs, exc, chk, lg) ==
    /\ pc' = "returned"
    /\ user_input' = input
    /\ raised' = exc
    /\ checks' = chk
    /\ IF exc = "none"
       THEN /\ errors' = errs
            /\ result' = EntryFor(ValidationInfo(input), input)
            /\ log' = lg
       ELSE /\ errors' = HandleException(errs, exc)
            /\ result' = async_show_form("user", HandleException(errs, exc))
            /\ log' = lg \o HandlerLog(exc)

Init ==
    /\ pc = "idle"
    /\ user_input = None
    /\ submitted = None
    /\ errors = EmptyDict
    /\ hub = None
    /\ result = None
    /\ raised = "none"
    /\ checks = <<>>
    /\ hubCalls = <<>>
    /\ initDataCalls = 0
    /\ hubExc = "none"
    /\ log = <<>>

\* async_step_user(None): the form is shown
StepUserNoInput ==
    /\ pc = "idle"
    /\ pc' = "returned"
    /\ user_input' = None
    /\ submitted' = None
    /\ errors' = FreshErrors
    /\ result' = async_show_form("user", FreshErrors)
    /\ UNCHANGED <<hub, raised, checks, hubCalls, initDataCalls, hubExc, log>>

\* async_step_user(data) up to the await of init_data, or to its return when
\* a synchronous check fails or Hub(...) raises (ctor: "ok" or the exception)
StepUserSubmit ==
    /\ pc = "idle"
    /\ \E data \in DATA_SCHEMA, ctor \in {"ok"} \cup HubExceptions :
        /\ submitted' = data
        /\ LET sync == SyncChecks(data) IN
           IF sync.raised # "none"
           THEN /\ Finish(data, FreshErrors, sync.raised, sync.checks, sync.log)
                /\ UNCHANGED <<hub, hubCalls, initDataCalls, hubExc>>
           ELSE IF ctor # "ok"
           THEN /\ Finish(data, FreshErrors, ProbeFailure(ctor),
                          sync.checks \o <<"probe">>,
                          sync.log \o <<LogRecord("error", "Cannot start hub")>>)
                /\ hubCalls' = <<HubArgs(data)>>
                /\ hubExc' = ctor
                /\ UNCHANGED <<hub, initDataCalls>>
           ELSE /\ pc' = "awaiting"
                /\ user_input' = data
                /\ errors' = FreshErrors
                /\ hub' = Hub(data, EmptyDict)
                /\ hubCalls' = <<HubArgs(data)>>
                /\ initDataCalls' = 1
                /\ checks' = sync.checks \o <<"probe">>
                /\ log' = sync.log
                /\ UNCHANGED <<result, raised, hubExc>>

\* init_data returns having left some d in hub.data: validate_input runs on to its
\* end and async_step_user to its return
InitDataReturns ==
    /\ pc = "awaiting"
    /\ \E d \in HubData :
        /\ hub' = [hub EXCEPT !.data = d]
        /\ LET post == HubDataChecks(d) IN
           Finish(user_input, errors, post.raised, checks \o post.checks,
                  log \o post.log)
    /\ UNCHANGED <<submitted, hubCalls, initDataCalls, hubExc>>

\* init_data raises some e
InitDataRaises ==
    /\ pc = "awaiting"
    /\ \E e \in HubExceptions :
        /\ hubExc' = e
        /\ Finish(user_input, errors, ProbeFailure(e), checks,
                  log \o <<LogRecord("error", "Cannot start hub")>>)
    /\ UNCHANGED <<submitted, hub, hubCalls, initDataCalls>>

\* the call is over: its locals are gone, the host holds the result; after a
\* form the user may submit again, after an entry the flow is finished
StepReturns ==
    /\ pc = "returned"
    /\ pc' = IF result.type = "create_entry" THEN "finished" ELSE "idle"
    /\ user_input' = None
    /\ submitted' = None
    /\ errors' = EmptyDict
    /\ hub' = None
    /\ raised' = "none"
    /\ checks' = <<>>
    /\ hubCalls' = <<>>
    /\ initDataCalls' = 0
    /\ hubExc' = "none"
    /\ log' = <<>>
    /\ UNCHANGED result

Next ==
    \/ StepUserNoInput
    \/ StepUserSubmit
    \/ InitDataReturns
    \/ InitDataRaises
    \/ StepReturns

Spec == Init /\ [][Next]_vars

(***************************************************************************)
(* The properties.  They are stated on the state in which a call of        *)
(* async_step_user has returned (pc = "returned"), where the record the    *)
(* user submitted, the exception validate_input raised and the result      *)
(* handed to the host are all at hand.                                     *)
(***************************************************************************)
\* a submission has been answered
Answered == pc = "returned" /\ submitted # None

\* the conditions of the checks, on the submitted record
HostTooShort(c) == Len(c.host) < MIN_HOST_LEN
PortTooLarge(c) == c.port > MAX_PORT
ScanTooShort(c) == c.scan_interval < MIN_SCAN_INTERVAL
AddressClash(c) == c.meter_unit_id > 0 /\ c.meter_unit_id = c.inverter_unit_id
PassesSyncChecks(c) ==
    ~HostTooShort(c) /\ ~PortTooLarge(c) /\ ~ScanTooShort(c) /\ ~AddressClash(c)

\* init_data has returned in this call: hub.data is what the hub reported
ProbeCompleted == pc = "returned" /\ initDataCalls = 1 /\ hubExc = "none"
ManufacturerMissing == "i_manufacturer" \notin DOMAIN hub.data
ManufacturerUnsupported ==
    ~ManufacturerMissing /\ hub.data.i_manufacturer \notin SUPPORTED_MANUFACTURERS
ModelMissing == "i_model" \notin DOMAIN hub.data
ModelIsString == ~ModelMissing /\ hub.data.i_model.type = "str"
ModelTested ==
    ModelIsString /\ \E m \in SUPPORTED_MODELS : StartsWith(hub.data.i_model.value, m)

CheckOrder ==
    <<"host", "port", "scan_interval", "addresses", "probe", "manufacturer", "model">>
CheckFailure ==
    <<"InvalidHost", "InvalidPort", "ScanIntervalTooShort", "AddressesNotUnique",
      "CannotConnect", "UnsupportedHardware", "UnsupportedHardware">>
TypedFailures == ToSet(CheckFailure)

\* the i-th check of CheckOrder fails for this submission
CheckFails(i) ==
    CASE i = 1 -> HostTooShort(submitted)
      [] i = 2 -> PortTooLarge(submitted)
      [] i = 3 -> ScanTooShort(submitted)
      [] i = 4 -> AddressClash(submitted)
      [] i = 5 -> hubExc # "none"
      [] i = 6 -> ProbeCompleted /\ (ManufacturerMissing \/ ManufacturerUnsupported)
      [] OTHER -> ProbeCompleted /\ ModelMissing

FailingChecks == {i \in DOMAIN CheckOrder : CheckFails(i)}
Earliest(S) == CHOOSE i \in S : \A j \in S : i <= j

OneError(key, code) == [k \in {key} |-> code]
FormWith(errs) == [type |-> "form", step_id |-> "user", errors |-> errs]

\* C1: the checks run in the order host, port, scan interval, addresses,
\* probe, manufacturer, model; the failure raised is that of the earliest
\* failing check, and the checks evaluated are exactly those up to it.
C1_OrderedShortCircuit ==
    /\ Answered =>
          IF FailingChecks = {}
          THEN raised \notin TypedFailures /\ checks = CheckOrder
          ELSE /\ raised = CheckFailure[Earliest(FailingChecks)]
               /\ checks = SubSeq(CheckOrder, 1, Earliest(FailingChecks))
    /\ pc = "awaiting" =>
          /\ PassesSyncChecks(submitted)
          /\ checks = SubSeq(CheckOrder, 1, 5)

C1_Witness ==
    /\ Answered
    /\ HostTooShort(submitted) /\ PortTooLarge(submitted)
    /\ ScanTooShort(submitted) /\ AddressClash(submitted)
    /\ raised = "InvalidHost"
    /\ checks = <<"host">>

\* C2 as stated: every submission with port > 65535 fails with InvalidPort
\* and is answered with invalid_port, whatever its host.
C2_AnyHost ==
    Answered /\ PortTooLarge(submitted) =>
        raised = "InvalidPort" /\ result = FormWith(OneError("base", "invalid_port"))

\* C2 as amended: every submission with a host of at least 3 characters and
\* port > 65535 fails with InvalidPort and is answered with invalid_port,
\* whatever its scan interval and unit ids.
C2_PortAfterHost ==
    Answered /\ ~HostTooShort(submitted) /\ PortTooLarge(submitted) =>
        raised = "InvalidPort" /\ result = FormWith(OneError("base", "invalid_port"))

C2_Witness ==
    /\ Answered
    /\ ~HostTooShort(submitted) /\ PortTooLarge(submitted)
    /\ ScanTooShort(submitted) /\ AddressClash(submitted)
    /\ result = FormWith(OneError("base", "invalid_port"))

\* C3 as stated: every submission with scan_interval < 5 fails with
\* ScanIntervalTooShort and is answered with scan_interval_too_short,
\* whatever its host and port.
C3_AnyHostAndPort ==
    Answered /\ ScanTooShort(submitted) =>
        /\ raised = "ScanIntervalTooShort"
        /\ result = FormWith(OneError("base", "scan_interval_too_short"))

\* C3 as amended: every submission with a host of at least 3 characters,
\* port <= 65535 and scan_interval < 5 fails with ScanIntervalTooShort and is
\* answered with scan_interval_too_short, whatever its unit ids.
C3_ScanAfterHostAndPort ==
    Answered /\ ~HostTooShort(submitted) /\ ~PortTooLarge(submitted)
             /\ ScanTooShort(submitted) =>
        /\ raised = "ScanIntervalTooShort"
        /\ result = FormWith(OneError("base", "scan_interval_too_short"))

C3_Witness ==
    /\ Answered
    /\ ~HostTooShort(submitted) /\ ~PortTooLarge(submitted)
    /\ ScanTooShort(submitted) /\ AddressClash(submitted)
    /\ result = FormWith(OneError("base", "scan_interval_too_short"))

\* C4: a submission that passes the host, port and scan-interval checks
\* fails with AddressesNotUnique exactly when meter_unit_id > 0 and
\* meter_unit_id = inverter_unit_id; with meter_unit_id <= 0 the check passes
\* and the hub is given an empty meter list, otherwise the list of the meter.
C4_AddressUniqueness ==
    (pc \in {"awaiting", "returned"} /\ submitted # None
        /\ ~HostTooShort(submitted) /\ ~PortTooLarge(submitted)
        /\ ~ScanTooShort(submitted)) =>
        /\ raised = "AddressesNotUnique" <=>
              (submitted.meter_unit_id > 0
                 /\ submitted.meter_unit_id = submitted.inverter_unit_id)
        /\ raised = "AddressesNotUnique" => hubCalls = <<>>
        /\ submitted.meter_unit_id <= 0 =>
              /\ Len(hubCalls) = 1
              /\ hubCalls[1].meter_addresses = <<>>
        /\ (submitted.meter_unit_id > 0
              /\ submitted.meter_unit_id # submitted.inverter_unit_id) =>
              /\ Len(hubCalls) = 1
              /\ hubCalls[1].meter_addresses = <<submitted.meter_unit_id>>

C4_Witness ==
    /\ Answered
    /\ submitted.meter_unit_id <= 0
    /\ submitted.meter_unit_id = submitted.inverter_unit_id
    /\ Len(hubCalls) = 1
    /\ hubCalls[1].meter_addresses = <<>>
    /\ raised = "none"

\* C5: when Hub(...) or init_data raises any exception, validate_input fails
\* with CannotConnect, the form is shown again with cannot_connect, and
\* neither the manufacturer nor the model check is made.
C5_ProbeFailureIsCannotConnect ==
    pc = "returned" /\ hubExc # "none" =>
        /\ PassesSyncChecks(submitted)
        /\ raised = "CannotConnect"
        /\ result = FormWith(OneError("base", "cannot_connect"))
        /\ checks = SubSeq(CheckOrder, 1, 5)

C5_Witness ==
    /\ pc = "returned"
    /\ hubExc = "TimeoutError"
    /\ initDataCalls = 1
    /\ result = FormWith(OneError("base", "cannot_connect"))

\* the exceptions of the hub that are none of this module's own classes
Unanticipated == HubExceptions \ TypedFailures

\* C6 as stated: an unanticipated exception raised during the probe is
\* answered with the code unknown.
C6_ProbeExceptionIsUnknown ==
    pc = "returned" /\ hubExc \in Unanticipated =>
        result = FormWith(OneError("base", "unknown"))

\* C6 as amended: an unanticipated exception raised during the probe is
\* caught in validate_input and answered with the code cannot_connect; the
\* code unknown answers only an exception raised outside the probe.
C6_ProbeExceptionIsCannotConnect ==
    /\ pc = "returned" /\ hubExc \in Unanticipated =>
          /\ result = FormWith(OneError("base", "cannot_connect"))
          /\ \A i \in DOMAIN log : log[i].level # "exception"
    /\ (pc = "returned" /\ result.type = "form" /\ "base" \in DOMAIN result.errors
          /\ result.errors["base"] = "unknown") => hubExc = "none"

C6_Witness ==
    /\ pc = "returned"
    /\ hubExc = "OSError"
    /\ Len(hubCalls) = 1
    /\ initDataCalls = 0
    /\ result = FormWith(OneError("base", "cannot_connect"))

\* C7: after a probe that completed, validate_input fails with
\* UnsupportedHardware exactly when the manufacturer is missing or not
\* supported or the model is missing; a model string that starts with no
\* supported prefix is accepted, with a warning as the only log record.
C7_UnsupportedHardware ==
    ProbeCompleted =>
        /\ raised = "UnsupportedHardware" <=>
              (ManufacturerMissing \/ ManufacturerUnsupported \/ ModelMissing)
        /\ (~ManufacturerMissing /\ ~ManufacturerUnsupported
              /\ ModelIsString /\ ~ModelTested) =>
              /\ raised = "none"
              /\ result.type = "create_entry"
              /\ log = <<[level |-> "warning", msg |-> "Untested model"]>>
        /\ (~ManufacturerMissing /\ ~ManufacturerUnsupported /\ ModelTested) =>
              /\ raised = "none"
              /\ log = <<>>

C7_Witness ==
    /\ ProbeCompleted
    /\ hub.data = [i_manufacturer |-> "Fronius",
                   i_model |-> [type |-> "str", value |-> "SP"]]
    /\ result.type = "create_entry"
    /\ log = <<[level |-> "warning", msg |-> "Untested model"]>>

\* C8: an entry is created exactly when validate_input returned; then its
\* title is the submitted name and its data the submitted record, unchanged,
\* and the synchronous checks passed, the probe completed, the manufacturer
\* is supported and the model present.
C8_EntryIffValidated ==
    Answered =>
        /\ result.type = "create_entry" <=> raised = "none"
        /\ result.type = "create_entry" =>
              /\ result.title = submitted.name
              /\ result.data = submitted
              /\ user_input = submitted
              /\ PassesSyncChecks(submitted)
              /\ ProbeCompleted
              /\ ~ManufacturerMissing /\ ~ManufacturerUnsupported /\ ~ModelMissing
        /\ (PassesSyncChecks(submitted) /\ ProbeCompleted /\ ~ManufacturerMissing
              /\ ~ManufacturerUnsupported /\ ModelIsString) =>
              result.type = "create_entry"

C8_Witness ==
    /\ Answered
    /\ result.type = "create_entry"
    /\ result.title = "Garage"
    /\ result.data = submitted
    /\ submitted.meter_unit_id > 0

\* the code each failure of validate_input is answered with
ExpectedErrors(exc) ==
    CASE exc = "InvalidHost" -> OneError("host", "invalid_host")
      [] exc = "CannotConnect" -> OneError("base", "cannot_connect")
      [] exc = "InvalidPort" -> OneError("base", "invalid_port")
      [] exc = "ScanIntervalTooShort" -> OneError("base", "scan_interval_too_short")
      [] exc = "UnsupportedHardware" -> OneError("base", "unsupported_hardware")
      [] exc = "AddressesNotUnique" -> OneError("base", "modbus_address_conflict")
      [] OTHER -> OneError("base", "unknown")

\* C9: a call of async_step_user ends with an entry or with the form; a
\* failed submission is answered with the form and exactly one error, the
\* one of its own failure; without input the form has no error.
C9_FormOrEntry ==
    pc = "returned" =>
        /\ result.type \in {"form", "create_entry"}
        /\ submitted = None => result = FormWith(EmptyDict)
        /\ (submitted # None /\ raised # "none") =>
              /\ result = FormWith(ExpectedErrors(raised))
              /\ Cardinality(DOMAIN result.errors) = 1
        /\ (submitted # None /\ raised = "none") => result.type = "create_entry"

C9_Witness ==
    /\ Answered
    /\ raised = "AttributeError"
    /\ result = FormWith(OneError("base", "unknown"))

\* C10: in one call Hub(...) is called at most once and init_data at most
\* once, and only for a submission that passed the host, port, scan-interval
\* and address checks; a call without input or with a submission one of
\* these checks rejects constructs no Hub.
C10_OneProbeAfterSyncChecks ==
    /\ Len(hubCalls) <= 1
    /\ initDataCalls <= Len(hubCalls)
    /\ Len(hubCalls) = 1 =>
          /\ submitted # None
          /\ PassesSyncChecks(submitted)
          /\ hubCalls[1].host = submitted.host
    /\ (pc = "returned" /\ (submitted = None \/ ~PassesSyncChecks(submitted))) =>
          /\ hubCalls = <<>>
          /\ initDataCalls = 0
          /\ hub = None
          /\ hubExc = "none"

C10_Witness ==
    /\ pc = "returned"
    /\ hubExc = "OSError"
    /\ Len(hubCalls) = 1
    /\ initDataCalls = 1
    /\ raised = "CannotConnect"

====
